---------------------------- MODULE Spec2Model ----------------------------
(***************************************************************************)
(* Interview scheduling of CortexHR: the ScheduleInterviewDialog component  *)
(* (src/src/components/AIEmailDialog.tsx, lines 380-897), the               *)
(* schedule-interview edge function and the google-calendar edge function   *)
(* (src/supabase/functions/auto-process-application/index.ts).              *)
(*                                                                         *)
(* Time is counted in minutes.  A Date is the number of minutes since the   *)
(* local midnight that starts day 0; an ISO timestamp is the triple         *)
(* <<day, hours, minutes>>; a string such as "09:30" is the sequence of its *)
(* characters.                                                              *)
(***************************************************************************)
EXTENDS Integers, Sequences, FiniteSets, TLC

\* ------------------------------------------------------------------ bounds
\* days the user can pick in the calendar popover (enabled week days)
NumDays == 2
\* applications in the database
NumApps == 1
\* get-free-busy calls of the dialog in flight at once
MaxFetch == 2
\* check-connection calls of the dialog in flight at once
MaxCheck == 1
\* executions of the schedule-interview handler in one behaviour
MaxReq == 2
\* failures of external calls and of database statements in one behaviour
MaxFaults == 1
\* intervals in one busy set drawn for the pure-function specification
MaxBusy == 2

Days == 1..NumDays
Apps == 1..NumApps
\* selectedApplication === ''
NoApp == 0
\* selectedDate === undefined
NoDate == 0
MinutesPerHour == 60
MinutesPerDay == 24 * MinutesPerHour

\* ------------------------------------------------------- strings and dates
Digits == <<"0", "1", "2", "3", "4", "5", "6", "7", "8", "9">>

DigitVal(c) == (CHOOSE i \in 1..10 : Digits[i] = c) - 1

\* Number("09") = 9, parseInt("60") = 60
RECURSIVE Number(_)
Number(s) ==
    IF s = <<>> THEN 0
    ELSE Number(SubSeq(s, 1, Len(s) - 1)) * 10 + DigitVal(s[Len(s)])

parseInt(s) == Number(s)

\* timeSlot.split(':') of a string holding one colon
split(s) ==
    LET k == CHOOSE i \in 1..Len(s) : s[i] = ":"
    IN  <<SubSeq(s, 1, k - 1), SubSeq(s, k + 1, Len(s))>>

\* date.setHours(hours, minutes, 0, 0) on a copy of date
setHours(date, hours, minutes) ==
    (date \div MinutesPerDay) * MinutesPerDay + hours * MinutesPerHour + minutes

addMinutes(date, amount) == date + amount

\* parseISO / new Date(isoString)
parseISO(iso) == iso[1] * MinutesPerDay + iso[2] * MinutesPerHour + iso[3]

toISOString(date) ==
    <<date \div MinutesPerDay, (date % MinutesPerDay) \div MinutesPerHour,
      date % MinutesPerHour>>

isBefore(a, b) == a < b
isAfter(a, b) == a > b

\* the Date the calendar popover hands to onSelect for day d
DateOf(d) == d * MinutesPerDay

\* --------------------------------------------------------------- slot grid
timeSlotsWithoutLast == <<
    <<"0", "9", ":", "0", "0">>, <<"0", "9", ":", "3", "0">>,
    <<"1", "0", ":", "0", "0">>, <<"1", "0", ":", "3", "0">>,
    <<"1", "1", ":", "0", "0">>, <<"1", "1", ":", "3", "0">>,
    <<"1", "2", ":", "0", "0">>, <<"1", "2", ":", "3", "0">>,
    <<"1", "3", ":", "0", "0">>, <<"1", "3", ":", "3", "0">>,
    <<"1", "4", ":", "0", "0">>, <<"1", "4", ":", "3", "0">>,
    <<"1", "5", ":", "0", "0">>, <<"1", "5", ":", "3", "0">>,
    <<"1", "6", ":", "0", "0">>, <<"1", "6", ":", "3", "0">> >>

timeSlots == <<
    <<"0", "9", ":", "0", "0">>, <<"0", "9", ":", "3", "0">>,
    <<"1", "0", ":", "0", "0">>, <<"1", "0", ":", "3", "0">>,
    <<"1", "1", ":", "0", "0">>, <<"1", "1", ":", "3", "0">>,
    <<"1", "2", ":", "0", "0">>, <<"1", "2", ":", "3", "0">>,
    <<"1", "3", ":", "0", "0">>, <<"1", "3", ":", "3", "0">>,
    <<"1", "4", ":", "0", "0">>, <<"1", "4", ":", "3", "0">>,
    <<"1", "5", ":", "0", "0">>, <<"1", "5", ":", "3", "0">>,
    <<"1", "6", ":", "0", "0">>, <<"1", "6", ":", "3", "0">>,
    <<"1", "7", ":", "0", "0">> >>

\* the <SelectItem value=...> options of the duration Select
durationOptions == <<
    <<"3", "0">>, <<"4", "5">>, <<"6", "0">>, <<"9", "0">>, <<"1", "2", "0">> >>

\* useState('60')
DefaultDuration == <<"6", "0">>

\* selectedTime === ''
NoTime == <<>>
\* findFirstAvailable() === null
Null == <<"n", "u", "l", "l">>


\* -------------------------------------------------------------------- state
VARIABLES
    \* React state of ScheduleInterviewDialog
    open, selectedApplication, selectedDate, selectedTime, duration,
    interviewType, createMeetLink, busySlots, loadingBusy, calendarConnected,
    checkingCalendar,
    \* data of the 'schedulable-applications' query
    applications,
    \* the scheduleInterview mutation: its status, the values its mutationFn
    \* closed over, its local variables and the toasts it raised
    mutation,
    \* google-calendar calls of the dialog that have not returned yet:
    \* get-free-busy per day, and check-connection
    fetches, checks,
    \* database tables and the hr user's Google credential
    interviews, appStatus, token,
    \* executions of the schedule-interview handler
    reqs,
    \* events created in the Google calendar, Teams meetings created
    gcalEvents, teamsMeetings,
    \* whether MS_CLIENT_ID, MS_CLIENT_SECRET and MS_TENANT_ID are set
    msConfigured,
    \* failures injected so far
    faults,
    \* result of the last call made on drawn inputs: isSlotBusy /
    \* findFirstAvailable (pure-function specification), the google-calendar
    \* function's response (credential specification)
    probe,
    \* the get-free-busy call that returned last: its day, whether it failed
    lastFetch,
    \* whether selectedTime was set by the time Select's onValueChange
    \* (history of the dialog, not a field of it)
    pickedByUser

vars == <<open, selectedApplication, selectedDate, selectedTime, duration,
          interviewType, createMeetLink, busySlots, loadingBusy,
          calendarConnected, checkingCalendar, applications, mutation, fetches,
          checks, interviews, appStatus, token, reqs, gcalEvents,
          teamsMeetings, msConfigured, faults, probe, lastFetch,
          pickedByUser>>

\* ------------------------------------------------- conflict checker (pure)
\* busy intervals are ISO timestamp pairs as the google-calendar function
\* returns them
BusySlot(s, e) == [start |-> s, end |-> e]

isSlotBusyLoose(timeSlot, date, busy, dur) ==
    IF date = NoDate \/ busy = {} THEN FALSE
    ELSE
        LET hm == split(timeSlot)
            slotStart == setHours(date, Number(hm[1]), Number(hm[2]))
            slotEnd == addMinutes(slotStart, parseInt(dur))
        IN  \E b \in busy :
                /\ slotStart <= parseISO(b.end)
                /\ slotEnd >= parseISO(b.start)

isSlotBusyContained(timeSlot, date, busy, dur) ==
    IF date = NoDate \/ busy = {} THEN FALSE
    ELSE
        LET hm == split(timeSlot)
            slotStart == setHours(date, Number(hm[1]), Number(hm[2]))
            slotEnd == addMinutes(slotStart, parseInt(dur))
        IN  \E b \in busy :
                /\ slotStart >= parseISO(b.start)
                /\ slotEnd <= parseISO(b.end)

\* isSlotBusy, with the state it closes over (selectedDate, busySlots,
\* duration) as parameters: an effect or handler calls it with the values of
\* the render it belongs to
isSlotBusy(timeSlot, date, busy, dur) ==
    IF date = NoDate \/ busy = {} THEN FALSE
    ELSE
        LET hm == split(timeSlot)
            slotStart == setHours(date, Number(hm[1]), Number(hm[2]))
            slotEnd == addMinutes(slotStart, parseInt(dur))
        IN  \E b \in busy :
                LET busyStart == parseISO(b.start)
                    busyEnd == parseISO(b.end)
                IN  isBefore(slotStart, busyEnd) /\ isAfter(slotEnd, busyStart)

RECURSIVE firstFreeFrom(_, _, _, _)
firstFreeFrom(i, date, busy, dur) ==
    IF i > Len(timeSlots) THEN Null
    ELSE IF ~isSlotBusy(timeSlots[i], date, busy, dur) THEN timeSlots[i]
    ELSE firstFreeFrom(i + 1, date, busy, dur)

findLastAvailable(date, busy, dur) ==
    LET free == {i \in 1..Len(timeSlots) :
                    ~isSlotBusy(timeSlots[i], date, busy, dur)}
    IN  IF free = {} THEN Null
        ELSE timeSlots[CHOOSE i \in free : \A j \in free : j <= i]

\* for (const slot of timeSlots) if (!isSlotBusy(slot)) return slot; return null
findFirstAvailable(date, busy, dur) == firstFreeFrom(1, date, busy, dur)

\* the auto-select effect, run with the values of one render; the result is
\* selectedTime after the effect
autoSelectOverriding(date, loading, busy, dur, time) ==
    IF date # NoDate /\ ~loading
    THEN LET firstAvailable == findFirstAvailable(date, busy, dur)
         IN  IF firstAvailable # Null THEN firstAvailable ELSE time
    ELSE time

autoSelect(date, loading, busy, dur, time) ==
    IF date # NoDate /\ ~loading
    THEN LET firstAvailable == findFirstAvailable(date, busy, dur)
         IN  IF firstAvailable # Null /\ time = NoTime
             THEN firstAvailable ELSE time
    ELSE time

\* ------------------------------------------------------ state after mounting
NoMutation ==
    [status |-> "idle", step |-> "none", app |-> NoApp, scheduledAt |-> <<>>,
     dur |-> 0, type |-> "", meet |-> "none", meetingUrl |-> "null",
     eventId |-> "null", req |-> 0, notices |-> {}]

Init ==
    /\ open = FALSE
    /\ selectedApplication = NoApp
    /\ selectedDate = NoDate
    /\ selectedTime = NoTime
    /\ duration = DefaultDuration
    /\ interviewType = "Technical"
    /\ createMeetLink = TRUE
    /\ busySlots = {}
    /\ loadingBusy = FALSE
    /\ calendarConnected = FALSE
    /\ checkingCalendar = TRUE
    /\ applications = [loaded |-> FALSE, ids |-> {}]
    /\ mutation = NoMutation
    /\ fetches = [d \in Days |-> 0]
    /\ checks = 0
    /\ interviews = {}
    /\ appStatus = [a \in Apps |-> "applied"]
    /\ token \in {"none", "valid"}
    /\ reqs = <<>>
    /\ gcalEvents = 0
    /\ teamsMeetings = 0
    /\ msConfigured \in BOOLEAN
    /\ faults = 0
    /\ probe = [op |-> "none", slot |-> 0, result |-> Null]
    /\ lastFetch = [day |-> 0, error |-> FALSE]
    /\ pickedByUser = FALSE

\* ------------------------------------------------- google-calendar function
\* what an action leaves alone
selectionVars == <<selectedApplication, interviewType, createMeetLink>>
callVars == <<fetches, checks>>
tableVars == <<interviews, appStatus>>
otherVars == <<msConfigured, probe, lastFetch, pickedByUser>>

\* a failure of an external call or of a database statement is injected at
\* most MaxFaults times
Inject(failed) ==
    /\ failed => faults < MaxFaults
    /\ faults' = IF failed THEN faults + 1 ELSE faults

\* token_expiry passes
TokenExpires ==
    /\ token = "valid"
    /\ token' = "expired"
    /\ UNCHANGED <<open, selectionVars, selectedDate, selectedTime, duration,
                   busySlots, loadingBusy, calendarConnected, checkingCalendar,
                   callVars, applications, mutation, tableVars, reqs,
                   teamsMeetings, gcalEvents, otherVars, faults>>

\* google-auth-callback upserts the user's row
OAuthCallback ==
    /\ token # "valid"
    /\ token' = "valid"
    /\ UNCHANGED <<open, selectionVars, selectedDate, selectedTime, duration,
                   busySlots, loadingBusy, calendarConnected, checkingCalendar,
                   callVars, applications, mutation, tableVars, reqs,
                   teamsMeetings, gcalEvents, otherVars, faults>>

\* the part of the handler shared by get-free-busy and create-event: read the
\* credential row, refresh an expired token.  Each outcome tells whether the
\* handler goes on to the action (proceed), the row it leaves, and whether an
\* external call failed (fault); status and code are those of the response
\* the handler returns when it does not go on.  An expired token is
\* refreshed; without GOOGLE_CLIENT_ID / GOOGLE_CLIENT_SECRET, or when the
\* fetch of refreshAccessToken throws, the handler answers 500 and leaves the
\* row; a refresh that Google refuses (refreshAccessToken returns null)
\* deletes the row.
tokenStepKeepsRow(tok) ==
    CASE tok = "none" ->
            {[proceed |-> FALSE, token |-> "none", fault |-> FALSE,
              status |-> 400, code |-> "NOT_CONNECTED"]}
      [] tok = "valid" ->
            {[proceed |-> TRUE, token |-> "valid", fault |-> FALSE,
              status |-> 200, code |-> ""]}
      [] tok = "expired" ->
            {[proceed |-> FALSE, token |-> "expired", fault |-> TRUE,
              status |-> 400, code |-> "TOKEN_EXPIRED"],
             [proceed |-> TRUE, token |-> "valid", fault |-> FALSE,
              status |-> 200, code |-> ""]}

tokenStep(tok) ==
    CASE tok = "none" ->
            {[proceed |-> FALSE, token |-> "none", fault |-> FALSE,
              status |-> 400, code |-> "NOT_CONNECTED"]}
      [] tok = "valid" ->
            {[proceed |-> TRUE, token |-> "valid", fault |-> FALSE,
              status |-> 200, code |-> ""]}
      [] tok = "expired" ->
            {[proceed |-> FALSE, token |-> "expired", fault |-> TRUE,
              status |-> 500, code |-> "OAuth not configured"],
             [proceed |-> FALSE, token |-> "expired", fault |-> TRUE,
              status |-> 500, code |-> "exception"],
             [proceed |-> FALSE, token |-> "none", fault |-> TRUE,
              status |-> 400, code |-> "TOKEN_EXPIRED"],
             [proceed |-> TRUE, token |-> "valid", fault |-> FALSE,
              status |-> 200, code |-> ""]}

\* busy sets the calendar may report for day d
CalendarEvents(d) ==
    {BusySlot(<<d, 10, 0>>, <<d, 11, 0>>), BusySlot(<<d, 9, 0>>, <<d, 17, 30>>)}

BusyResponses(d) == SUBSET CalendarEvents(d)

\* a calendar without events
QuietCalendar == {{}}

\* what the dialog gets from get-free-busy when the calendar may report any
\* of the busy sets in answers: {data, error} of supabase.functions.invoke.
\* The call may fail before it reaches the handler, in the credential step,
\* or at the Google API.
freeBusyResults(answers, tok) ==
    {[error |-> TRUE, busySlots |-> {}, token |-> tok, fault |-> TRUE]}
    \cup {[error |-> TRUE, busySlots |-> {}, token |-> o.token,
           fault |-> o.fault] : o \in {x \in tokenStep(tok) : ~x.proceed}}
    \cup {[error |-> TRUE, busySlots |-> {}, token |-> o.token,
           fault |-> TRUE] : o \in {x \in tokenStep(tok) : x.proceed}}
    \cup {[error |-> FALSE, busySlots |-> B, token |-> o.token,
           fault |-> FALSE] :
            o \in {x \in tokenStep(tok) : x.proceed}, B \in answers}

\* what the dialog gets from check-connection
checkConnectionResults(tok) ==
    {[error |-> TRUE, connected |-> FALSE, fault |-> TRUE],
     [error |-> FALSE, connected |-> (tok # "none"), fault |-> FALSE]}

\* what the dialog gets from create-event; created tells whether the event now
\* exists in the Google calendar, meetLink is null when the created event
\* carries no video entry point
createEventResults(tok) ==
    {[error |-> TRUE, created |-> FALSE, meetLink |-> "null", eventId |-> "null",
      token |-> tok, fault |-> TRUE]}
    \cup {[error |-> TRUE, created |-> FALSE, meetLink |-> "null",
           eventId |-> "null", token |-> o.token, fault |-> o.fault] :
            o \in {x \in tokenStep(tok) : ~x.proceed}}
    \cup {[error |-> TRUE, created |-> FALSE, meetLink |-> "null",
           eventId |-> "null", token |-> o.token, fault |-> TRUE] :
            o \in {x \in tokenStep(tok) : x.proceed}}
    \cup {[error |-> FALSE, created |-> TRUE, meetLink |-> l, eventId |-> "event",
           token |-> o.token, fault |-> (l = "null")] :
            o \in {x \in tokenStep(tok) : x.proceed}, l \in {"meet", "null"}}

\* a response of the google-calendar function: HTTP status, the code (or the
\* error text where the body has no code), the connected field ("absent"
\* where the body has none) and the busySlots field
CalendarResponse(status, code, connected, busy) ==
    [status |-> status, code |-> code, connected |-> connected,
     busySlots |-> busy]

\* the google-calendar function on a request of an authenticated user: the
\* responses it may return, with the credential row it leaves, whether an
\* external call or the read of the row failed, and whether an event was
\* created
googleCalendar(action, tok, answers) ==
    IF action = "check-connection"
    THEN {[response |-> CalendarResponse(200, "",
                            IF tok # "none" THEN "true" ELSE "false", {}),
           token |-> tok, fault |-> FALSE, created |-> FALSE],
          [response |-> CalendarResponse(200, "", "false", {}),
           token |-> tok, fault |-> TRUE, created |-> FALSE]}
    ELSE {[response |-> CalendarResponse(o.status, o.code, "absent", {}),
           token |-> o.token, fault |-> o.fault, created |-> FALSE] :
            o \in {x \in tokenStep(tok) : ~x.proceed}}
         \cup {[response |-> CalendarResponse(500, "failed", "absent", {}),
                token |-> o.token, fault |-> TRUE, created |-> FALSE] :
                 o \in {x \in tokenStep(tok) : x.proceed}}
         \cup {[response |-> CalendarResponse(200, "", "absent",
                                 IF action = "get-free-busy" THEN B ELSE {}),
                token |-> o.token, fault |-> FALSE,
                created |-> (action = "create-event")] :
                 o \in {x \in tokenStep(tok) : x.proceed},
                 B \in IF action = "get-free-busy" THEN answers ELSE {{}}}

\* ------------------------------------------------------------- the dialog
RECURSIVE SumOver(_, _)
SumOver(f, S) ==
    IF S = {} THEN 0
    ELSE LET x == CHOOSE y \in S : TRUE IN f[x] + SumOver(f, S \ {x})

InFlightFetches == SumOver(fetches, Days)

DayOf(date) == date \div MinutesPerDay

\* DialogTrigger / onOpenChange(true); the [open] effect calls
\* checkCalendarConnection
OpenDialog ==
    /\ ~open
    /\ checks < MaxCheck
    /\ open' = TRUE
    /\ checkingCalendar' = TRUE
    /\ checks' = checks + 1
    /\ UNCHANGED <<selectionVars, selectedDate, selectedTime, duration,
                   busySlots, loadingBusy, calendarConnected, fetches,
                   applications, mutation, tableVars, reqs, teamsMeetings,
                   gcalEvents, token, otherVars, faults>>

\* Cancel button / onOpenChange(false)
CloseDialog ==
    /\ open
    /\ open' = FALSE
    /\ UNCHANGED <<selectionVars, selectedDate, selectedTime, duration,
                   busySlots, loadingBusy, calendarConnected, checkingCalendar,
                   callVars, applications, mutation, tableVars, reqs,
                   teamsMeetings, gcalEvents, token, otherVars, faults>>

\* the [selectedDate, calendarConnected] effect: does it call fetchBusySlots
fetchEffectFetches(date, connected) == date # NoDate /\ connected

\* checkCalendarConnection after its await, and the effects that follow
CheckConnectionResponse ==
    /\ checks > 0
    /\ \E r \in checkConnectionResults(token) :
        LET connected == IF r.error THEN calendarConnected ELSE r.connected
            refetch == connected # calendarConnected
                         /\ fetchEffectFetches(selectedDate, connected)
        IN  /\ refetch => InFlightFetches < MaxFetch
            /\ Inject(r.fault)
            /\ calendarConnected' = connected
            /\ checkingCalendar' = FALSE
            /\ checks' = checks - 1
            /\ loadingBusy' = IF refetch THEN TRUE ELSE loadingBusy
            /\ fetches' = IF refetch
                          THEN [fetches EXCEPT ![DayOf(selectedDate)] = @ + 1]
                          ELSE fetches
    /\ UNCHANGED <<open, selectionVars, selectedDate, selectedTime, duration,
                   busySlots, applications, mutation, tableVars, reqs,
                   teamsMeetings, gcalEvents, token, otherVars>>

\* Calendar onSelect(date): a click on another day selects it, a click on the
\* selected day hands undefined; then the fetch effect and the auto-select
\* effect run on the render that follows
SelectDate(d) ==
    /\ open
    /\ LET date == IF selectedDate = DateOf(d) THEN NoDate ELSE DateOf(d)
           fetch == fetchEffectFetches(date, calendarConnected)
       IN  /\ fetch => InFlightFetches < MaxFetch
           /\ selectedDate' = date
           /\ selectedTime' = autoSelect(date, loadingBusy, busySlots, duration,
                                         NoTime)
           /\ pickedByUser' = FALSE
           /\ loadingBusy' = IF fetch THEN TRUE ELSE loadingBusy
           /\ fetches' = IF fetch THEN [fetches EXCEPT ![d] = @ + 1] ELSE fetches
    /\ UNCHANGED <<open, selectionVars, duration, busySlots, calendarConnected,
                   checkingCalendar, checks, applications, mutation, tableVars,
                   reqs, teamsMeetings, gcalEvents, token, msConfigured, probe,
                   lastFetch, faults>>

\* fetchBusySlots after its await for a call made for day d, and the
\* auto-select effect if busySlots or loadingBusy changed
FetchResponse(d, answers) ==
    /\ fetches[d] > 0
    /\ \E r \in freeBusyResults(answers, token) :
        LET busy == IF r.error THEN busySlots ELSE r.busySlots
            effectRuns == ~r.error \/ loadingBusy
        IN  /\ Inject(r.fault)
            /\ busySlots' = busy
            /\ loadingBusy' = FALSE
            /\ selectedTime' =
                 IF effectRuns
                 THEN autoSelect(selectedDate, FALSE, busy, duration, selectedTime)
                 ELSE selectedTime
            /\ token' = r.token
            /\ lastFetch' = [day |-> d, error |-> r.error]
    /\ fetches' = [fetches EXCEPT ![d] = @ - 1]
    /\ UNCHANGED <<open, selectionVars, selectedDate, duration,
                   calendarConnected, checkingCalendar, checks, applications,
                   mutation, tableVars, reqs, teamsMeetings, gcalEvents,
                   msConfigured, probe, pickedByUser>>

\* time Select onValueChange; busy items are disabled, the Select is disabled
\* without a date
SelectTime(i) ==
    /\ open
    /\ selectedDate # NoDate
    /\ ~isSlotBusy(timeSlots[i], selectedDate, busySlots, duration)
    /\ selectedTime' = timeSlots[i]
    /\ pickedByUser' = TRUE
    /\ UNCHANGED <<open, selectionVars, selectedDate, duration, busySlots,
                   loadingBusy, calendarConnected, checkingCalendar, callVars,
                   applications, mutation, tableVars, reqs, teamsMeetings,
                   gcalEvents, token, msConfigured, probe, lastFetch, faults>>

SetDuration(i) ==
    /\ open
    /\ duration' = durationOptions[i]
    /\ UNCHANGED <<open, selectionVars, selectedDate, selectedTime, busySlots,
                   loadingBusy, calendarConnected, checkingCalendar, callVars,
                   applications, mutation, tableVars, reqs, teamsMeetings,
                   gcalEvents, token, otherVars, faults>>

interviewTypes == <<"HR Screen", "Technical", "Behavioral", "Final">>

SetInterviewType(i) ==
    /\ open
    /\ interviewType' = interviewTypes[i]
    /\ UNCHANGED <<open, selectedApplication, createMeetLink, selectedDate,
                   selectedTime, duration, busySlots, loadingBusy,
                   calendarConnected, checkingCalendar, callVars, applications,
                   mutation, tableVars, reqs, teamsMeetings, gcalEvents, token,
                   otherVars, faults>>

\* the Switch is rendered only when the calendar is connected
ToggleCreateMeetLink ==
    /\ open
    /\ calendarConnected
    /\ createMeetLink' = ~createMeetLink
    /\ UNCHANGED <<open, selectedApplication, interviewType, selectedDate,
                   selectedTime, duration, busySlots, loadingBusy,
                   calendarConnected, checkingCalendar, callVars, applications,
                   mutation, tableVars, reqs, teamsMeetings, gcalEvents, token,
                   otherVars, faults>>

\* queryFn of 'schedulable-applications' (enabled: open) returning rows; a
\* failed query leaves the data as it is
ApplicationsQuery ==
    /\ open
    /\ applications' =
          [loaded |-> TRUE,
           ids |-> {a \in Apps : appStatus[a] \in {"applied", "screening"}}]
    /\ UNCHANGED <<open, selectionVars, selectedDate, selectedTime, duration,
                   busySlots, loadingBusy, calendarConnected, checkingCalendar,
                   callVars, mutation, tableVars, reqs, teamsMeetings,
                   gcalEvents, token, otherVars, faults>>

\* candidate Select onValueChange
SelectApplication(a) ==
    /\ open
    /\ applications.loaded
    /\ a \in applications.ids
    /\ selectedApplication' = a
    /\ UNCHANGED <<open, interviewType, createMeetLink, selectedDate,
                   selectedTime, duration, busySlots, loadingBusy,
                   calendarConnected, checkingCalendar, callVars, applications,
                   mutation, tableVars, reqs, teamsMeetings, gcalEvents, token,
                   otherVars, faults>>

\* --------------------------------------------- the scheduleInterview mutation
availStateVars == <<busySlots, loadingBusy, calendarConnected, checkingCalendar,
                    fetches, checks>>

\* a new execution of the schedule-interview handler, with the request body
NewRequest(from, applicationId, scheduledAt, durationMinutes, type, url, id) ==
    [from |-> from, applicationId |-> applicationId,
     scheduledAt |-> scheduledAt, durationMinutes |-> durationMinutes,
     interviewType |-> type, providedMeetingUrl |-> url,
     providedMeetingId |-> id, meetingUrl |-> "null",
     meetingId |-> "null", pc |-> "received", insert |-> "none",
     interview |-> 0,
     statusUpdate |-> "none", email |-> "none", slack |-> "none",
     status |-> 0, returnedUrl |-> "null"]

\* requests the dialog still has to send once create-event returns
Reserved == IF mutation.step = "creating-meeting" THEN 1 ELSE 0

Failed(message) ==
    [NoMutation EXCEPT !.status = "error", !.notices = {message}]

\* the first statement of mutationFn: which of its arguments are missing
missingSelection(application, date, time) ==
    application = NoApp \/ date = NoDate \/ time = NoTime

createsCalendarEventAlways(connected, optIn) == TRUE

\* if (calendarConnected && createMeetLink)
createsCalendarEvent(connected, optIn) == connected /\ optIn

canSubmitWhilePending ==
    ~(selectedApplication = NoApp \/ selectedDate = NoDate
        \/ selectedTime = NoTime)

\* the Schedule Interview button is not disabled
canSubmit ==
    ~(mutation.status = "pending" \/ selectedApplication = NoApp
        \/ selectedDate = NoDate \/ selectedTime = NoTime)

SubmitWithoutAwait ==
    /\ open
    /\ canSubmit
    /\ Len(reqs) < MaxReq
    /\ IF missingSelection(selectedApplication, selectedDate, selectedTime)
       THEN /\ mutation' = Failed("Please select a candidate, date and time")
            /\ UNCHANGED reqs
       ELSE IF ~applications.loaded \/ selectedApplication \notin applications.ids
       THEN /\ mutation' = Failed("Application not found")
            /\ UNCHANGED reqs
       ELSE
         LET hm == split(selectedTime)
             scheduledAt == setHours(selectedDate, Number(hm[1]), Number(hm[2]))
             started == [status |-> "pending", step |-> "none",
                         app |-> selectedApplication,
                         scheduledAt |-> toISOString(scheduledAt),
                         dur |-> parseInt(duration), type |-> interviewType,
                         meet |-> "none", meetingUrl |-> "null",
                         eventId |-> "null", req |-> 0, notices |-> {}]
         IN  IF createsCalendarEvent(calendarConnected, createMeetLink)
             THEN /\ mutation' = [started EXCEPT !.step = "creating-meeting",
                                                 !.req = Len(reqs) + 1]
                  /\ reqs' = Append(reqs,
                        NewRequest("dialog", started.app, started.scheduledAt,
                                   started.dur, started.type, "null", "null"))
             ELSE /\ mutation' = [started EXCEPT !.step = "persisting",
                                                 !.req = Len(reqs) + 1]
                  /\ reqs' = Append(reqs,
                        NewRequest("dialog", started.app, started.scheduledAt,
                                   started.dur, started.type, "null", "null"))
    /\ UNCHANGED <<open, selectionVars, selectedDate, selectedTime, duration,
                   availStateVars, applications, tableVars, teamsMeetings,
                   gcalEvents, token, otherVars, faults>>

\* Schedule Interview button, and mutationFn up to its first await
Submit ==
    /\ open
    /\ canSubmit
    /\ Len(reqs) < MaxReq
    /\ IF missingSelection(selectedApplication, selectedDate, selectedTime)
       THEN /\ mutation' = Failed("Please select a candidate, date and time")
            /\ UNCHANGED reqs
       ELSE IF ~applications.loaded \/ selectedApplication \notin applications.ids
       THEN /\ mutation' = Failed("Application not found")
            /\ UNCHANGED reqs
       ELSE
         LET hm == split(selectedTime)
             scheduledAt == setHours(selectedDate, Number(hm[1]), Number(hm[2]))
             started == [status |-> "pending", step |-> "none",
                         app |-> selectedApplication,
                         scheduledAt |-> toISOString(scheduledAt),
                         dur |-> parseInt(duration), type |-> interviewType,
                         meet |-> "none", meetingUrl |-> "null",
                         eventId |-> "null", req |-> 0, notices |-> {}]
         IN  IF createsCalendarEvent(calendarConnected, createMeetLink)
             THEN /\ mutation' = [started EXCEPT !.step = "creating-meeting"]
                  /\ UNCHANGED reqs
             ELSE /\ mutation' = [started EXCEPT !.step = "persisting",
                                                 !.req = Len(reqs) + 1]
                  /\ reqs' = Append(reqs,
                        NewRequest("dialog", started.app, started.scheduledAt,
                                   started.dur, started.type, "null", "null"))
    /\ UNCHANGED <<open, selectionVars, selectedDate, selectedTime, duration,
                   availStateVars, applications, tableVars, teamsMeetings,
                   gcalEvents, token, otherVars, faults>>

CreateEventResponseAborting ==
    /\ mutation.step = "creating-meeting"
    /\ \E r \in createEventResults(token) :
        /\ Inject(r.fault)
        /\ IF r.error
           THEN /\ mutation' = [NoMutation EXCEPT
                      !.status = "error", !.meet = "failed",
                      !.notices = {"Failed to schedule interview"}]
                /\ UNCHANGED reqs
           ELSE /\ mutation' = [mutation EXCEPT
                      !.step = "persisting", !.meetingUrl = r.meetLink,
                      !.eventId = r.eventId, !.meet = "created",
                      !.req = Len(reqs) + 1]
                /\ reqs' = Append(reqs,
                      NewRequest("dialog", mutation.app, mutation.scheduledAt,
                                 mutation.dur, mutation.type, r.meetLink,
                                 r.eventId))
        /\ token' = r.token
        /\ gcalEvents' = IF r.created THEN gcalEvents + 1 ELSE gcalEvents
    /\ UNCHANGED <<open, selectionVars, selectedDate, selectedTime, duration,
                   availStateVars, applications, tableVars, teamsMeetings,
                   otherVars>>

\* mutationFn after the create-event await: keep the link if the call
\* succeeded, then invoke schedule-interview.  thrown: invoke raised instead
\* of returning {error}.
CreateEventResponse ==
    /\ mutation.step = "creating-meeting"
    /\ \E r \in createEventResults(token), thrown \in BOOLEAN :
        LET url == IF r.error THEN "null" ELSE r.meetLink
            id == IF r.error THEN "null" ELSE r.eventId
        IN  /\ thrown => (r.error /\ r.token = token /\ r.fault)
            /\ Inject(r.fault)
            /\ mutation' = [mutation EXCEPT
                  !.step = "persisting", !.meetingUrl = url, !.eventId = id,
                  !.meet = IF r.error THEN "failed" ELSE "created",
                  !.req = Len(reqs) + 1,
                  !.notices = IF thrown
                      THEN {"Calendar event creation failed, but continuing with scheduling"}
                      ELSE {}]
            /\ reqs' = Append(reqs,
                  NewRequest("dialog", mutation.app, mutation.scheduledAt,
                             mutation.dur, mutation.type, url, id))
            /\ token' = r.token
            /\ gcalEvents' = IF r.created THEN gcalEvents + 1 ELSE gcalEvents
    /\ UNCHANGED <<open, selectionVars, selectedDate, selectedTime, duration,
                   availStateVars, applications, tableVars, teamsMeetings,
                   otherVars>>

successNoticeOnlyWithLink(meetingUrl) ==
    IF meetingUrl # "null" THEN "Interview scheduled with Google Meet link!"
    ELSE "Calendar event creation failed, but continuing with scheduling"

resetFormKeepingBusy ==
    /\ selectedApplication' = NoApp
    /\ selectedDate' = NoDate
    /\ selectedTime' = NoTime
    /\ pickedByUser' = FALSE
    /\ duration' = DefaultDuration
    /\ interviewType' = "Technical"
    /\ UNCHANGED busySlots

\* resetForm()
resetForm ==
    /\ selectedApplication' = NoApp
    /\ selectedDate' = NoDate
    /\ selectedTime' = NoTime
    /\ pickedByUser' = FALSE
    /\ duration' = DefaultDuration
    /\ interviewType' = "Technical"
    /\ busySlots' = {}

\* the toast of onSuccess
successNotice(meetingUrl) ==
    IF meetingUrl # "null" THEN "Interview scheduled with Google Meet link!"
    ELSE "Interview scheduled"

\* mutationFn after the schedule-interview await, then onError, or onSuccess
\* with setOpen(false) and resetForm()
ScheduleResponse ==
    /\ mutation.step = "persisting"
    /\ reqs[mutation.req].pc = "done"
    /\ IF reqs[mutation.req].status # 200
       THEN /\ mutation' = [NoMutation EXCEPT
                  !.status = "error", !.req = mutation.req,
                  !.meet = mutation.meet,
                  !.notices = mutation.notices
                                \cup {"Failed to schedule interview"}]
            /\ UNCHANGED <<open, selectedApplication, selectedDate,
                           selectedTime, duration, interviewType, busySlots,
                           pickedByUser>>
       ELSE /\ mutation' = [NoMutation EXCEPT
                  !.status = "success", !.req = mutation.req,
                  !.meet = mutation.meet,
                  !.meetingUrl = mutation.meetingUrl,
                  !.notices = mutation.notices \cup
                      {successNotice(mutation.meetingUrl)}]
            /\ open' = FALSE
            /\ resetForm
    /\ UNCHANGED <<createMeetLink, loadingBusy, calendarConnected,
                   checkingCalendar, callVars, applications, tableVars, reqs,
                   teamsMeetings, gcalEvents, token, msConfigured, probe,
                   lastFetch, faults>>

\* ---------------------------------------------- schedule-interview function
dialogVars == <<open, selectionVars, selectedDate, selectedTime, duration,
                availStateVars, applications, mutation>>

\* scheduled_at another caller asks for
ApiTimes == {<<1, 9, 0>>}

\* another caller of the function: a second staff member's dialog, a script
OtherCallerRequest ==
    /\ Len(reqs) + Reserved < MaxReq
    /\ \E a \in Apps \cup {NoApp}, t \in ApiTimes \cup {<<>>} :
        /\ a # NoApp \/ t # <<>>
        /\ reqs' = Append(reqs, NewRequest("api", a, t, 60, "Technical", "null",
                                        "null"))
    /\ UNCHANGED <<dialogVars, tableVars, teamsMeetings, gcalEvents, token,
                   otherVars, faults>>

missingApplicationOnly(applicationId, scheduledAt) == applicationId = NoApp

\* !applicationId || !scheduledAt
missingRequired(applicationId, scheduledAt) ==
    applicationId = NoApp \/ scheduledAt = <<>>

\* parse the body, check the required fields, take the provided link; the
\* Teams fallback is tried when no link came and the MS_* variables are set
HandlerValidate(k) ==
    /\ reqs[k].pc = "received"
    /\ LET r == reqs[k]
       IN  reqs' = [reqs EXCEPT ![k] =
              IF missingRequired(r.applicationId, r.scheduledAt)
              THEN [r EXCEPT !.pc = "done", !.status = 400]
              ELSE [r EXCEPT !.meetingUrl = r.providedMeetingUrl,
                             !.meetingId = r.providedMeetingId,
                             !.pc = IF r.providedMeetingUrl = "null"
                                        /\ msConfigured
                                    THEN "teams" ELSE "insert"]]
    /\ UNCHANGED <<dialogVars, tableVars, teamsMeetings, gcalEvents, token,
                   otherVars, faults>>

\* the Microsoft Teams fallback: token request and onlineMeetings request; a
\* failure of either, or an exception, leaves meetingUrl null
HandlerTeams(k) ==
    /\ reqs[k].pc = "teams"
    /\ \E failed \in BOOLEAN :
        /\ Inject(failed)
        /\ reqs' = [reqs EXCEPT ![k] =
              IF failed THEN [@ EXCEPT !.pc = "insert"]
              ELSE [@ EXCEPT !.meetingUrl = "teams", !.meetingId = "teams-id",
                             !.pc = "insert"]]
        /\ teamsMeetings' = IF failed THEN teamsMeetings ELSE teamsMeetings + 1
    /\ UNCHANGED <<dialogVars, tableVars, gcalEvents, token, otherVars>>

\* the row the handler inserts; id comes from gen_random_uuid()
InterviewRow(r, id) ==
    [id |-> id, application_id |-> r.applicationId,
     scheduled_at |-> r.scheduledAt,
     duration_minutes |-> IF r.durationMinutes = 0 THEN 60
                          ELSE r.durationMinutes,
     interview_type |-> IF r.interviewType = "" THEN "Technical"
                        ELSE r.interviewType,
     meeting_url |-> r.meetingUrl, meeting_id |-> r.meetingId,
     status |-> "scheduled"]

logInterviewError(r) == [r EXCEPT !.insert = "failed", !.pc = "update"]

\* if (interviewError) throw interviewError; the catch answers 500
throwInterviewError(r) ==
    [r EXCEPT !.insert = "failed", !.pc = "done", !.status = 500]

insertAcceptedUnique(r, table) ==
    ~\E row \in table : /\ row.application_id = r.applicationId
                        /\ row.scheduled_at = r.scheduledAt

\* the constraints of table interviews on a new row: a primary key on the
\* generated id, no unique index on (application_id, scheduled_at)
insertAccepted(r, table) == TRUE

\* .from('interviews').insert(...).select().single(); an error is thrown to
\* the catch, which answers 500
HandlerInsert(k) ==
    /\ reqs[k].pc = "insert"
    /\ \E dbError \in BOOLEAN :
        /\ Inject(dbError)
        /\ IF dbError \/ ~insertAccepted(reqs[k], interviews)
           THEN /\ reqs' = [reqs EXCEPT ![k] = throwInterviewError(@)]
                /\ UNCHANGED interviews
           ELSE LET id == Cardinality(interviews) + 1
                IN  /\ interviews' = interviews \cup {InterviewRow(reqs[k], id)}
                    /\ reqs' = [reqs EXCEPT ![k] = [@ EXCEPT !.pc = "update",
                                                            !.insert = "ok",
                                                            !.interview = id]]
    /\ UNCHANGED <<dialogVars, appStatus, teamsMeetings, gcalEvents, token,
                   otherVars>>

updateStatusSkipped(status, applicationId, updateError) == status

\* .from('applications').update({ status: 'interview' }).eq('id', applicationId)
updateStatus(status, applicationId, updateError) ==
    IF updateError THEN status
    ELSE [status EXCEPT ![applicationId] = "interview"]

throwUpdateError(r, updateError) ==
    IF updateError
    THEN [r EXCEPT !.statusUpdate = "failed", !.pc = "done", !.status = 500]
    ELSE [r EXCEPT !.statusUpdate = "ok", !.pc = "notify"]

\* if (updateError) console.error(...): the handler goes on either way
logUpdateError(r, updateError) ==
    [r EXCEPT !.statusUpdate = IF updateError THEN "failed" ELSE "ok",
              !.pc = "notify"]

\* update applications set status = 'interview'; an error is only logged
HandlerUpdateStatus(k) ==
    /\ reqs[k].pc = "update"
    /\ \E updateError \in BOOLEAN :
        /\ Inject(updateError)
        /\ appStatus' = updateStatus(appStatus, reqs[k].applicationId,
                                      updateError)
        /\ reqs' = [reqs EXCEPT ![k] = logUpdateError(@, updateError)]
    /\ UNCHANGED <<dialogVars, interviews, teamsMeetings, gcalEvents, token,
                   otherVars>>

notifyErrorThrown(r, emailFailed, slackFailed) ==
    IF emailFailed \/ slackFailed
    THEN [r EXCEPT !.email = IF emailFailed THEN "failed" ELSE "sent",
                   !.slack = IF emailFailed THEN "none"
                             ELSE "failed",
                   !.pc = "done", !.status = 500]
    ELSE [r EXCEPT !.email = "sent", !.slack = "sent", !.pc = "done",
                   !.status = 200, !.returnedUrl = r.meetingUrl]

\* try { await invoke('send-email') } catch (emailError) { console.error }
\* try { await invoke('slack-notify') } catch (slackError) { console.log }
\* and the success response
notify(r, emailFailed, slackFailed) ==
    [r EXCEPT !.email = IF emailFailed THEN "failed" ELSE "sent",
              !.slack = IF slackFailed THEN "failed" ELSE "sent",
              !.pc = "done", !.status = 200, !.returnedUrl = r.meetingUrl]

\* the confirmation e-mail and the chat notification, neither of which reads
\* or writes anything another request sees, and the response
HandlerNotify(k) ==
    /\ reqs[k].pc = "notify"
    /\ \E emailFailed, slackFailed \in BOOLEAN :
        /\ Inject(emailFailed \/ slackFailed)
        /\ reqs' = [reqs EXCEPT ![k] = notify(@, emailFailed, slackFailed)]
    /\ UNCHANGED <<dialogVars, tableVars, teamsMeetings, gcalEvents, token,
                   otherVars>>

\* The scheduling pipeline: the dialog's mutation and the executions of the
\* schedule-interview handler, on a calendar without events and with the
\* default duration and interview type; the user picks the date once per
\* form.
Next ==
    \/ OpenDialog
    \/ CloseDialog
    \/ CheckConnectionResponse
    \/ selectedDate = NoDate /\ SelectDate(1)
    \/ FetchResponse(1, QuietCalendar)
    \/ ToggleCreateMeetLink
    \/ ApplicationsQuery
    \/ \E a \in Apps : SelectApplication(a)
    \/ Submit
    \/ CreateEventResponse
    \/ ScheduleResponse
    \/ OtherCallerRequest
    \/ \E k \in 1..Len(reqs) : HandlerValidate(k)
    \/ \E k \in 1..Len(reqs) : HandlerTeams(k)
    \/ \E k \in 1..Len(reqs) : HandlerInsert(k)
    \/ \E k \in 1..Len(reqs) : HandlerUpdateStatus(k)
    \/ \E k \in 1..Len(reqs) : HandlerNotify(k)

\* the hr user has connected the calendar before the dialog is mounted
PipelineInit == Init /\ token = "valid"

Spec == PipelineInit /\ [][Next]_vars

\* ------------------------------------------------------- the Interviews page
cancelInterviewDeletes(table, interviewId) ==
    {row \in table : row.id # interviewId}

\* .from('interviews').update({ status: 'cancelled' }).eq('id', interviewId)
cancelInterview(table, interviewId) ==
    {IF row.id = interviewId THEN [row EXCEPT !.status = "cancelled"] ELSE row :
        row \in table}

\* Cancel button of an interview shown in the today, upcoming or past list;
\* the lists leave out cancelled interviews
CancelInterview(interviewId) ==
    /\ \E row \in interviews : row.id = interviewId /\ row.status # "cancelled"
    /\ \E failed \in BOOLEAN :
        /\ Inject(failed)
        /\ interviews' = IF failed THEN interviews
                         ELSE cancelInterview(interviews, interviewId)
    /\ UNCHANGED <<dialogVars, appStatus, reqs, teamsMeetings, gcalEvents,
                   token, otherVars>>

\* The interviews table under every operation that writes it: executions of
\* the schedule-interview handler for other callers, and cancellations.
RecordNext ==
    \/ OtherCallerRequest
    \/ \E k \in 1..Len(reqs) : HandlerValidate(k)
    \/ \E k \in 1..Len(reqs) : HandlerTeams(k)
    \/ \E k \in 1..Len(reqs) : HandlerInsert(k)
    \/ \E k \in 1..Len(reqs) : HandlerUpdateStatus(k)
    \/ \E k \in 1..Len(reqs) : HandlerNotify(k)
    \/ \E id \in 1..MaxReq : CancelInterview(id)

RecordSpec == PipelineInit /\ [][RecordNext]_vars

\* The attempts of AttemptNext against a calendar with events, with the
\* Cancel button: the form's state when an attempt settles.
OutcomeNext ==
    \/ OpenDialog
    \/ CloseDialog
    \/ CheckConnectionResponse
    \/ selectedDate = NoDate /\ SelectDate(1)
    \/ FetchResponse(1, BusyResponses(1))
    \/ ApplicationsQuery
    \/ \E a \in Apps : SelectApplication(a)
    \/ Submit
    \/ CreateEventResponse
    \/ ScheduleResponse
    \/ \E k \in 1..Len(reqs) : HandlerValidate(k)
    \/ \E k \in 1..Len(reqs) : HandlerTeams(k)
    \/ \E k \in 1..Len(reqs) : HandlerInsert(k)
    \/ \E k \in 1..Len(reqs) : HandlerUpdateStatus(k)
    \/ \E k \in 1..Len(reqs) : HandlerNotify(k)

OutcomeSpec == PipelineInit /\ [][OutcomeNext]_vars

\* ------------------------------------- the pipeline stage of an application
application_status ==
    {"applied", "screening", "interview", "offer", "hired", "rejected"}

\* Candidates page, updateStatus.mutate({applicationId, status}); the offer
\* function sets 'offer' the same way
MoveApplication(a, status) ==
    /\ appStatus[a] # status
    /\ \E error \in BOOLEAN :
        /\ Inject(error)
        /\ appStatus' = IF error THEN appStatus
                        ELSE [appStatus EXCEPT ![a] = status]
    /\ UNCHANGED <<dialogVars, interviews, reqs, teamsMeetings, gcalEvents,
                   token, otherVars>>

\* the chat assistant's schedule_interview tool for a candidate whose latest
\* application is a: insert the interview, then update the application
\* without looking at the result
ScheduleInterviewTool(a) ==
    /\ Cardinality(interviews) < MaxReq
    /\ \E t \in ApiTimes, intError \in BOOLEAN, updateError \in BOOLEAN :
        /\ Inject(intError \/ updateError)
        /\ ~(intError /\ updateError)
        /\ IF intError
           THEN UNCHANGED tableVars
           ELSE /\ interviews' = interviews \cup
                     {[id |-> Cardinality(interviews) + 1,
                       application_id |-> a, scheduled_at |-> t,
                       duration_minutes |-> 60,
                       interview_type |-> "Technical",
                       meeting_url |-> "null", meeting_id |-> "null",
                       status |-> "scheduled"]}
                /\ appStatus' = updateStatus(appStatus, a, updateError)
    /\ UNCHANGED <<dialogVars, reqs, teamsMeetings, gcalEvents, token,
                   otherVars>>

StageNext ==
    \/ \E a \in Apps, status \in application_status : MoveApplication(a, status)
    \/ \E a \in Apps : ScheduleInterviewTool(a)
    \/ OtherCallerRequest
    \/ \E k \in 1..Len(reqs) : HandlerValidate(k)
    \/ \E k \in 1..Len(reqs) : HandlerTeams(k)
    \/ \E k \in 1..Len(reqs) : HandlerInsert(k)
    \/ \E k \in 1..Len(reqs) : HandlerUpdateStatus(k)
    \/ \E k \in 1..Len(reqs) : HandlerNotify(k)

StageSpec == PipelineInit /\ [][StageNext]_vars

\* One user's scheduling attempts from the dialog, with every awaited call
\* returning: supabase.functions.invoke resolves or rejects, and the handler
\* runs to its response.
AttemptNext ==
    \/ OpenDialog
    \/ CheckConnectionResponse
    \/ selectedDate = NoDate /\ SelectDate(1)
    \/ FetchResponse(1, QuietCalendar)
    \/ ApplicationsQuery
    \/ \E a \in Apps : SelectApplication(a)
    \/ Submit
    \/ CreateEventResponse
    \/ ScheduleResponse
    \/ \E k \in 1..Len(reqs) : HandlerValidate(k)
    \/ \E k \in 1..Len(reqs) : HandlerTeams(k)
    \/ \E k \in 1..Len(reqs) : HandlerInsert(k)
    \/ \E k \in 1..Len(reqs) : HandlerUpdateStatus(k)
    \/ \E k \in 1..Len(reqs) : HandlerNotify(k)

AttemptSpec ==
    /\ PipelineInit
    /\ [][AttemptNext]_vars
    /\ WF_vars(CreateEventResponse)
    /\ WF_vars(ScheduleResponse)
    /\ WF_vars(\E k \in 1..Len(reqs) : HandlerValidate(k))
    /\ WF_vars(\E k \in 1..Len(reqs) : HandlerTeams(k))
    /\ WF_vars(\E k \in 1..Len(reqs) : HandlerInsert(k))
    /\ WF_vars(\E k \in 1..Len(reqs) : HandlerUpdateStatus(k))
    /\ WF_vars(\E k \in 1..Len(reqs) : HandlerNotify(k))

\* number of grid slots, and of duration options, the user picks by hand in
\* the availability specification
MaxPick == 3
MaxDurationPick == 3

\* The form filled in against a calendar with events, up to its submission:
\* one date, the answers of get-free-busy, auto-selection, manual times and
\* durations, the candidate, the Schedule Interview button.  What follows
\* the submission is in Next.
FormNext ==
    \/ OpenDialog
    \/ CheckConnectionResponse
    \/ selectedDate = NoDate /\ SelectDate(1)
    \/ FetchResponse(1, BusyResponses(1))
    \/ \E i \in 1..MaxPick : i <= Len(timeSlots) /\ SelectTime(i)
    \/ \E i \in 1..MaxDurationPick :
          i <= Len(durationOptions) /\ SetDuration(i)
    \/ ApplicationsQuery
    \/ \E a \in Apps : SelectApplication(a)
    \/ Submit

FormSpec == PipelineInit /\ [][FormNext]_vars

\* The availability side of the dialog: dates, overlapping get-free-busy
\* calls, auto-selection, manual times and durations, the credential.
AvailNext ==
    \/ OpenDialog
    \/ CloseDialog
    \/ CheckConnectionResponse
    \/ \E d \in Days : SelectDate(d)
    \/ \E d \in Days : FetchResponse(d, BusyResponses(d))
    \/ \E i \in 1..MaxPick : i <= Len(timeSlots) /\ SelectTime(i)
    \/ \E i \in 1..MaxDurationPick :
          i <= Len(durationOptions) /\ SetDuration(i)
    \/ TokenExpires
    \/ OAuthCallback

AvailSpec == Init /\ [][AvailNext]_vars

\* -------------------------------- specification of the credential lifecycle
calendarActions == {"check-connection", "get-free-busy", "create-event"}

\* one execution of the google-calendar function, on a request for day d
GoogleCalendar(action, d) ==
    /\ action = "create-event" => gcalEvents < MaxReq
    /\ \E o \in googleCalendar(action, token, BusyResponses(d)) :
        /\ Inject(o.fault)
        /\ token' = o.token
        /\ probe' = [op |-> action, slot |-> d, result |-> o.response]
        /\ gcalEvents' = IF o.created THEN gcalEvents + 1 ELSE gcalEvents
    /\ UNCHANGED <<dialogVars, tableVars, reqs, teamsMeetings, msConfigured,
                   lastFetch, pickedByUser>>

CalendarNext ==
    \/ \E action \in calendarActions, d \in Days : GoogleCalendar(action, d)
    \/ TokenExpires
    \/ OAuthCallback

CalendarSpec == Init /\ [][CalendarNext]_vars

\* --------------------------------------- specification of the pure functions
\* end points of the busy intervals the conflict checker is tried on
BusyTimes ==
    {<<1, 9, 0>>, <<1, 10, 0>>, <<1, 11, 0>>, <<1, 17, 30>>, <<2, 9, 0>>}

BusyIntervals ==
    {BusySlot(s, e) : s \in BusyTimes, e \in BusyTimes} \ 
        {b \in {BusySlot(s, e) : s \in BusyTimes, e \in BusyTimes} :
            parseISO(b.start) >= parseISO(b.end)}

BusySets == {B \in SUBSET BusyIntervals : Cardinality(B) <= MaxBusy}

SlotSet == {timeSlots[i] : i \in 1..Len(timeSlots)}
DurationSet == {durationOptions[i] : i \in 1..Len(durationOptions)}

GridInit ==
    /\ open = TRUE
    /\ selectedApplication = NoApp
    /\ selectedDate \in {NoDate} \cup {DateOf(d) : d \in Days}
    /\ selectedTime \in IF selectedDate = NoDate THEN {NoTime}
                        ELSE {NoTime, timeSlots[2]}
    /\ duration \in DurationSet
    /\ interviewType = "Technical"
    /\ createMeetLink = TRUE
    /\ busySlots \in BusySets
    /\ loadingBusy = FALSE
    /\ calendarConnected = TRUE
    /\ checkingCalendar = FALSE
    /\ applications = [loaded |-> FALSE, ids |-> {}]
    /\ mutation = NoMutation
    /\ fetches = [d \in Days |-> 0]
    /\ checks = 0
    /\ interviews = {}
    /\ appStatus = [a \in Apps |-> "applied"]
    /\ token = "valid"
    /\ reqs = <<>>
    /\ gcalEvents = 0
    /\ teamsMeetings = 0
    /\ msConfigured = FALSE
    /\ faults = 0
    /\ probe = [op |-> "none", slot |-> 0, result |-> Null]
    /\ lastFetch = [day |-> 0, error |-> FALSE]
    /\ pickedByUser = FALSE

\* isSlotBusy(timeSlots[i]) as the time Select calls it while rendering
ProbeSlot(i) ==
    /\ probe.op = "none"
    /\ probe' = [op |-> "isSlotBusy", slot |-> i,
                 result |-> isSlotBusy(timeSlots[i], selectedDate, busySlots,
                                       duration)]
    /\ UNCHANGED <<dialogVars, tableVars, reqs, teamsMeetings, gcalEvents,
                   token, msConfigured, faults, lastFetch, pickedByUser>>

\* the auto-select effect run on the current render
AutoSelectEffect ==
    /\ probe.op = "none"
    /\ probe' = [op |-> "findFirstAvailable", slot |-> 0,
                 result |-> findFirstAvailable(selectedDate, busySlots,
                                               duration)]
    /\ selectedTime' = autoSelect(selectedDate, loadingBusy, busySlots,
                                  duration, selectedTime)
    /\ UNCHANGED <<open, selectionVars, selectedDate, duration,
                   availStateVars, applications, mutation, tableVars, reqs,
                   teamsMeetings, gcalEvents, token, msConfigured, faults,
                   lastFetch, pickedByUser>>

GridNext ==
    \/ \E i \in 1..Len(timeSlots) : ProbeSlot(i)
    \/ AutoSelectEffect

GridSpec == GridInit /\ [][GridNext]_vars

\* ------------------------------------------------- claims on pure functions
\* the grid written as arithmetic: slot i starts 9 h + 30 (i - 1) min after
\* midnight
GridStart(i) == 9 * 60 + 30 * (i - 1)

HHMM(n) ==
    LET h == n \div 60
        m == n % 60
    IN  <<Digits[(h \div 10) + 1], Digits[(h % 10) + 1], ":",
          Digits[(m \div 10) + 1], Digits[(m % 10) + 1]>>

DurationMinutes(dur) ==
    LET k == CHOOSE i \in 1..Len(durationOptions) : durationOptions[i] = dur
    IN  <<30, 45, 60, 90, 120>>[k]

\* s < b1 and s + d > b0 for some busy interval [b0, b1)
Overlaps(i, date, busy, dur) ==
    \E b \in busy :
        /\ date + GridStart(i) < parseISO(b.end)
        /\ date + GridStart(i) + DurationMinutes(dur) > parseISO(b.start)

\* C1: with a date selected, every grid slot is classified busy exactly when
\* some busy interval [b0, b1) has s < b1 and s + d > b0, so a slot ending at
\* b0 or starting at b1 is free; this holds of every call the dialog makes.
ConflictCheckerIsHalfOpenOverlap ==
    /\ selectedDate # NoDate =>
        \A i \in 1..Len(timeSlots) :
            isSlotBusy(timeSlots[i], selectedDate, busySlots, duration)
                <=> Overlaps(i, selectedDate, busySlots, duration)
    /\ (probe.op = "isSlotBusy" /\ selectedDate # NoDate) =>
        (probe.result <=> Overlaps(probe.slot, selectedDate, busySlots, duration))

\* a slot that ends exactly where a busy interval begins, and one that begins
\* exactly where a busy interval ends, were classified (and found free)
BoundarySlotProbed ==
    /\ probe.op = "isSlotBusy"
    /\ selectedDate # NoDate
    /\ probe.result = FALSE
    /\ \E b \in busySlots :
        \/ selectedDate + GridStart(probe.slot) + DurationMinutes(duration)
              = parseISO(b.start)
        \/ selectedDate + GridStart(probe.slot) = parseISO(b.end)

\* the earliest free slot by the arithmetic of the grid, Null if there is none
EarliestFree(date, busy, dur) ==
    LET free == {i \in 1..17 : date = NoDate \/ ~Overlaps(i, date, busy, dur)}
    IN  IF free = {} THEN Null
        ELSE HHMM(GridStart(CHOOSE i \in free : \A j \in free : i <= j))

\* C7: findFirstAvailable returns the chronologically earliest slot the
\* conflict checker classifies free, "09:00" for an empty busy set and none
\* when every slot is busy; an auto-select that gets none leaves the time
\* field as it is (unset stays unset)
FirstAvailableIsEarliestFree ==
    /\ [](/\ findFirstAvailable(selectedDate, busySlots, duration)
               = EarliestFree(selectedDate, busySlots, duration)
          /\ busySlots = {} =>
               findFirstAvailable(selectedDate, busySlots, duration)
                   = <<"0", "9", ":", "0", "0">>
          /\ probe.op = "findFirstAvailable" =>
               probe.result = EarliestFree(selectedDate, busySlots, duration))
    /\ [][findFirstAvailable(selectedDate, busySlots, duration) = Null
            => selectedTime' = selectedTime]_vars

\* the selector ran on a date whose every slot is busy, returned none, and
\* the time field is unset
AllBusySelectorRan ==
    /\ probe.op = "findFirstAvailable"
    /\ probe.result = Null
    /\ selectedDate # NoDate
    /\ selectedTime = NoTime
    /\ \A i \in 1..Len(timeSlots) :
          isSlotBusy(timeSlots[i], selectedDate, busySlots, duration)

\* C8: the grid offered by the time Select is exactly the 17 values "09:00",
\* "09:30", ..., "17:00", ascending in steps of 30 minutes, whatever date and
\* duration are selected
SlotGridIsFixed ==
    /\ Len(timeSlots) = 17
    /\ \A i \in 1..17 : timeSlots[i] = HHMM(GridStart(i))
    /\ probe.op = "isSlotBusy" =>
          /\ probe.slot \in 1..17
          /\ timeSlots[probe.slot] = HHMM(GridStart(probe.slot))

\* the last slot of the grid was rendered under a non-default duration
GridRenderedForOtherDuration ==
    /\ probe.op = "isSlotBusy"
    /\ probe.slot = 17
    /\ timeSlots[probe.slot] = <<"1", "7", ":", "0", "0">>
    /\ selectedDate = DateOf(2)
    /\ duration = <<"9", "0">>

ExampleBusy(d) == {BusySlot(<<d, 10, 0>>, <<d, 11, 0>>)}

\* C9: duration 60 and the single busy interval 10:00-11:00 on the selected
\* date: "10:30" is busy, "09:00" and "11:00" are free, and the selector
\* returns "09:00"
ExampleScenario ==
    \A d \in Days :
        (/\ selectedDate = DateOf(d)
         /\ duration = <<"6", "0">>
         /\ busySlots = ExampleBusy(d)) =>
            /\ isSlotBusy(<<"1", "0", ":", "3", "0">>, selectedDate, busySlots,
                          duration)
            /\ ~isSlotBusy(<<"0", "9", ":", "0", "0">>, selectedDate, busySlots,
                           duration)
            /\ ~isSlotBusy(<<"1", "1", ":", "0", "0">>, selectedDate, busySlots,
                           duration)
            /\ findFirstAvailable(selectedDate, busySlots, duration)
                  = <<"0", "9", ":", "0", "0">>
            /\ probe.op = "findFirstAvailable" =>
                  probe.result = <<"0", "9", ":", "0", "0">>
            /\ (probe.op = "isSlotBusy" /\ probe.slot = 4) => probe.result
            /\ (probe.op = "isSlotBusy" /\ probe.slot \in {1, 5}) => ~probe.result

\* the selector ran in the example scenario
ExampleScenarioRan ==
    /\ selectedDate = DateOf(1)
    /\ duration = <<"6", "0">>
    /\ busySlots = ExampleBusy(1)
    /\ probe.op = "findFirstAvailable"
    /\ probe.result = <<"0", "9", ":", "0", "0">>


\* ------------------------------------------ claims on the scheduling pipeline
Requests == 1..Len(reqs)

\* the row request k inserted is in the table as it was written
Persisted(k) ==
    /\ reqs[k].insert = "ok"
    /\ reqs[k].interview # 0
    /\ InterviewRow(reqs[k], reqs[k].interview) \in interviews

\* the handler of request k has gone past the insert statement
PastInsert(k) ==
    \/ reqs[k].pc \in {"update", "notify"}
    \/ reqs[k].pc = "done" /\ reqs[k].status # 400

\* the dialog's mutation has settled on the answer to request k
SettledOn(k) == mutation.req = k /\ mutation.step = "none"

\* C2: when the insert of the interview row fails, the handler answers 500
\* and stops: no row, no update of the application status, no e-mail, no
\* chat notification for that request; the dialog's mutation ends in error.
\* Rows and status updates come only from requests whose insert succeeded.
PersistenceFailureIsFatal ==
    /\ \A k \in Requests :
        reqs[k].insert = "failed" =>
            /\ reqs[k].pc = "done"
            /\ reqs[k].status = 500
            /\ reqs[k].interview = 0
            /\ reqs[k].statusUpdate = "none"
            /\ reqs[k].email = "none"
            /\ reqs[k].slack = "none"
            /\ SettledOn(k) =>
                  /\ mutation.status = "error"
                  /\ "Failed to schedule interview" \in mutation.notices
    /\ Cardinality(interviews)
          = Cardinality({k \in Requests : reqs[k].insert = "ok"})
    /\ \A a \in Apps :
          appStatus[a] = "interview" =>
              \E k \in Requests : /\ reqs[k].applicationId = a
                                  /\ reqs[k].insert = "ok"
                                  /\ reqs[k].statusUpdate = "ok"

PersistenceFailureReported ==
    \E k \in Requests :
        /\ reqs[k].from = "dialog"
        /\ reqs[k].insert = "failed"
        /\ SettledOn(k)
        /\ mutation.status = "error"
        /\ interviews = {}
        /\ appStatus[reqs[k].applicationId] = "applied"

\* C3 (as the code has it): when the dialog's create-event call fails, the
\* mutation goes on to schedule-interview without a link; unless the insert
\* itself fails the interview row is written and the mutation succeeds.  The
\* row's meeting_url is null, or the Teams link when the MS_* variables are
\* set and the handler's Teams fallback created a meeting.
MeetingFailureDoesNotAbort ==
    mutation.meet = "failed" =>
        /\ mutation.req \in Requests
        /\ LET r == reqs[mutation.req]
           IN  /\ r.from = "dialog"
               /\ r.providedMeetingUrl = "null"
               /\ PastInsert(mutation.req) /\ r.insert # "failed" =>
                     /\ Persisted(mutation.req)
                     /\ r.meetingUrl
                          \in {"null"} \cup (IF msConfigured THEN {"teams"} ELSE {})
               /\ r.meetingUrl = "teams" => teamsMeetings > 0
               /\ (r.status = 200 /\ mutation.step = "none") =>
                     mutation.status = "success"
               /\ mutation.status = "error" => r.insert = "failed"

MeetingFailureThenSuccess ==
    /\ mutation.meet = "failed"
    /\ mutation.status = "success"
    /\ Persisted(mutation.req)
    /\ reqs[mutation.req].status = 200

\* C3 (as the specification words it): after a failed create-event call the
\* persisted interview has no meeting link.
MeetingFailureLeavesNullUrl ==
    (mutation.meet = "failed" /\ mutation.req \in Requests) =>
        (reqs[mutation.req].insert = "ok" =>
            reqs[mutation.req].meetingUrl = "null")

\* C4: a scheduling attempt without application, date or time is refused with
\* a validation error and has no effect: mutationFn refuses every such
\* selection, no pending mutation lacks a field, and a request to the handler
\* without applicationId or scheduledAt is answered 400 with no meeting, no
\* row, no status update and no notification.
ValidationHasNoSideEffect ==
    /\ \A a \in Apps \cup {NoApp}, d \in {NoDate} \cup {DateOf(x) : x \in Days},
          t \in {NoTime} \cup {timeSlots[i] : i \in 1..Len(timeSlots)} :
          (a = NoApp \/ d = NoDate \/ t = NoTime) => missingSelection(a, d, t)
    /\ mutation.status = "pending" =>
          mutation.app # NoApp /\ mutation.scheduledAt # <<>>
    /\ \A k \in Requests :
        (reqs[k].applicationId = NoApp \/ reqs[k].scheduledAt = <<>>) =>
            /\ reqs[k].pc \in {"received", "done"}
            /\ reqs[k].pc = "done" => reqs[k].status = 400
            /\ reqs[k].meetingUrl = "null"
            /\ reqs[k].insert = "none"
            /\ reqs[k].interview = 0
            /\ reqs[k].statusUpdate = "none"
            /\ reqs[k].email = "none"
            /\ reqs[k].slack = "none"
    /\ \A row \in interviews :
          row.application_id # NoApp /\ row.scheduled_at # <<>>

IncompleteRequestRefused ==
    /\ \E k \in Requests : reqs[k].scheduledAt = <<>> /\ reqs[k].status = 400
    /\ interviews = {}
    /\ teamsMeetings = 0
    /\ \A a \in Apps : appStatus[a] = "applied"

\* C5: a failure of the confirmation e-mail or of the chat notification is
\* not an operation failure: the handler answers 200, the dialog's mutation
\* succeeds, and the interview row stays in the table as written; no step
\* removes or changes a row.
NotificationsAreBestEffort ==
    /\ [](\A k \in Requests :
            (reqs[k].email = "failed" \/ reqs[k].slack = "failed") =>
                /\ Persisted(k)
                /\ reqs[k].pc = "done"
                /\ reqs[k].status = 200
                /\ SettledOn(k) => mutation.status = "success")
    /\ [][\A row \in interviews : row \in interviews']_vars

NotificationFailedThenSuccess ==
    \E k \in Requests :
        /\ reqs[k].from = "dialog"
        /\ reqs[k].email = "failed"
        /\ reqs[k].slack = "failed"
        /\ reqs[k].status = 200
        /\ SettledOn(k)
        /\ mutation.status = "success"
        /\ Persisted(k)

SameSlot(k1, k2) ==
    /\ k1 # k2
    /\ ~missingRequired(reqs[k1].applicationId, reqs[k1].scheduledAt)
    /\ reqs[k1].applicationId = reqs[k2].applicationId
    /\ reqs[k1].scheduledAt = reqs[k2].scheduledAt

\* C6: two requests for the same application and the same scheduledAt are
\* both accepted: as long as no failure was injected, each one that has gone
\* past the insert has its own row, and each one that has ended answered 200.
NoDeduplication ==
    \A k1, k2 \in Requests :
        (SameSlot(k1, k2) /\ faults = 0) =>
            /\ PastInsert(k1) => Persisted(k1)
            /\ reqs[k1].pc = "done" => reqs[k1].status = 200
            /\ (Persisted(k1) /\ Persisted(k2)) =>
                  reqs[k1].interview # reqs[k2].interview

TwoInterviewsForOneSlot ==
    \E k1, k2 \in Requests :
        /\ SameSlot(k1, k2)
        /\ reqs[k1].from = "dialog"
        /\ reqs[k2].from = "api"
        /\ reqs[k1].status = 200
        /\ reqs[k2].status = 200
        /\ Persisted(k1)
        /\ Persisted(k2)
        /\ Cardinality(interviews) = 2

\* ------------------------------------------- claims on the availability side
\* C10 (as the specification words it): once a get-free-busy call for the
\* selected date has failed and no other call is in flight, every slot of the
\* grid is classified free on that date.
FailedFetchLeavesDayFree ==
    (/\ selectedDate # NoDate
     /\ lastFetch.error
     /\ lastFetch.day = DayOf(selectedDate)
     /\ InFlightFetches = 0
     /\ ~loadingBusy) =>
        \A i \in 1..Len(timeSlots) :
            ~isSlotBusy(timeSlots[i], selectedDate, busySlots, duration)

\* C11 (as the specification words it): while no credential row exists and
\* the dialog knows the calendar as not connected, with no google-calendar
\* call outstanding, the busy set is empty and every slot of the grid is
\* classified free on the selected date.
NotConnectedMeansNoConflicts ==
    (/\ token = "none"
     /\ ~calendarConnected
     /\ checks = 0
     /\ InFlightFetches = 0) =>
        /\ busySlots = {}
        /\ \A i \in 1..Len(timeSlots) :
              ~isSlotBusy(timeSlots[i], selectedDate, busySlots, duration)

\* C12 (as the code has it): when a request is answered 200 the status update
\* has been attempted, and unless that update failed the application's
\* status is interview.
SuccessMeansInterviewStatus ==
    \A k \in Requests :
        reqs[k].status = 200 =>
            /\ reqs[k].statusUpdate \in {"ok", "failed"}
            /\ reqs[k].statusUpdate = "ok" =>
                  appStatus[reqs[k].applicationId] = "interview"

SuccessWithInterviewStatus ==
    \E k \in Requests :
        /\ reqs[k].from = "dialog"
        /\ reqs[k].status = 200
        /\ SettledOn(k)
        /\ mutation.status = "success"
        /\ reqs[k].statusUpdate = "ok"
        /\ appStatus[reqs[k].applicationId] = "interview"

\* C12 (as the specification words it): whenever a request is answered 200
\* the application's status is interview.
SuccessAlwaysInterviewStatus ==
    \A k \in Requests :
        reqs[k].status = 200 => appStatus[reqs[k].applicationId] = "interview"

\* C13: a failed update of the application status is only logged: the row
\* stays, the handler goes on to the notifications, both are attempted
\* before it answers, it answers 200, and the dialog's mutation succeeds.
StatusUpdateIsFireAndObserve ==
    \A k \in Requests :
        reqs[k].statusUpdate = "failed" =>
            /\ Persisted(k)
            /\ reqs[k].pc \in {"notify", "done"}
            /\ reqs[k].pc = "done" =>
                  /\ reqs[k].status = 200
                  /\ reqs[k].email \in {"sent", "failed"}
                  /\ reqs[k].slack \in {"sent", "failed"}
            /\ SettledOn(k) => mutation.status = "success"

StatusUpdateFailedThenSuccess ==
    \E k \in Requests :
        /\ reqs[k].from = "dialog"
        /\ reqs[k].statusUpdate = "failed"
        /\ reqs[k].status = 200
        /\ reqs[k].email = "sent"
        /\ reqs[k].slack = "sent"
        /\ Persisted(k)
        /\ SettledOn(k)
        /\ mutation.status = "success"
        /\ appStatus[reqs[k].applicationId] = "applied"

\* ---------------------------------------------- claims on the interviews table
\* the row with the id of row in the table after the step
SameRecord(row, after) == CHOOSE r \in after : r.id = row.id

\* C14: no step removes an interview row; a row keeps its id, application,
\* scheduled time, duration and type, and when its status changes it becomes
\* cancelled with the meeting link left as it was.  Ids are unique.
InterviewsAreNeverDeleted ==
    /\ [](\A r1, r2 \in interviews : r1.id = r2.id => r1 = r2)
    /\ [][\A row \in interviews :
            /\ \E r \in interviews' : r.id = row.id
            /\ LET after == SameRecord(row, interviews')
               IN  /\ after.application_id = row.application_id
                   /\ after.scheduled_at = row.scheduled_at
                   /\ after.duration_minutes = row.duration_minutes
                   /\ after.interview_type = row.interview_type
                   /\ after.status # row.status =>
                         /\ after.status = "cancelled"
                         /\ after.meeting_url = row.meeting_url
                         /\ after.meeting_id = row.meeting_id]_vars

InterviewCancelled ==
    /\ Cardinality(interviews) = 2
    /\ \E row \in interviews :
          /\ row.status = "cancelled"
          /\ row.application_id \in Apps
          /\ row.scheduled_at # <<>>
    /\ \E row \in interviews : row.status = "scheduled"

\* ------------------------------------------------- claims on the user's view
SuccessNotices ==
    {"Interview scheduled with Google Meet link!", "Interview scheduled"}

ErrorNotices ==
    {"Failed to schedule interview", "Application not found",
     "Please select a candidate, date and time"}

\* the toasts about the interview itself the current attempt has raised
OutcomeNotices == mutation.notices \cap (SuccessNotices \cup ErrorNotices)

\* C15: a pending attempt raises no outcome toast; an attempt that succeeded
\* raised one success toast, no error toast, and its row is in the table; an
\* attempt that failed raised one error toast, no success toast, and failed
\* before the request or on the insert, never on a meeting, status-update or
\* notification failure alone.  Every pending attempt ends in success or
\* error.
EveryAttemptEndsInOneOutcome ==
    /\ [](/\ mutation.status = "pending" => OutcomeNotices = {}
          /\ mutation.status = "success" =>
                /\ Cardinality(OutcomeNotices) = 1
                /\ OutcomeNotices \subseteq SuccessNotices
                /\ Persisted(mutation.req)
                /\ reqs[mutation.req].status = 200
          /\ mutation.status = "error" =>
                /\ Cardinality(OutcomeNotices) = 1
                /\ OutcomeNotices \subseteq ErrorNotices
                /\ mutation.req # 0 =>
                      /\ reqs[mutation.req].insert = "failed"
                      /\ reqs[mutation.req].status = 500)
    /\ (mutation.status = "pending") ~> (mutation.status \in {"success", "error"})

DegradedAttemptSucceeded ==
    /\ mutation.status = "success"
    /\ mutation.meet = "failed"
    /\ "Calendar event creation failed, but continuing with scheduling"
          \in mutation.notices
    /\ OutcomeNotices = {"Interview scheduled"}

\* C16 (as the specification words it): once a request has ended in a failed
\* insert, nothing of that attempt remains: no row, no status update, no
\* notification, no Teams meeting made by the handler, and for the dialog's
\* attempt no Google calendar event made by create-event.
PersistenceFailureLeavesNothing ==
    \A k \in Requests :
        reqs[k].insert = "failed" =>
            /\ reqs[k].interview = 0
            /\ reqs[k].statusUpdate = "none"
            /\ reqs[k].email = "none"
            /\ reqs[k].slack = "none"
            /\ reqs[k].meetingUrl # "teams"
            /\ reqs[k].providedMeetingId = "null"
            /\ SettledOn(k) => mutation.meet # "created"

\* ------------------------------------------------- claims on the step order
\* C17: within one attempt the steps run one after another.  While the dialog
\* waits for create-event it has not called schedule-interview; the handler
\* has finished the meeting step before it inserts, and has inserted before
\* it notifies; a row appears only in the handler's insert step, and for the
\* dialog's request only while the mutation is in its persisting step.
StepsRunInOrder ==
    /\ [](/\ mutation.step = "creating-meeting" =>
                /\ mutation.req = 0
                /\ mutation.meet = "none"
          /\ mutation.step = "persisting" =>
                /\ mutation.req \in Requests
                /\ reqs[mutation.req].providedMeetingUrl = mutation.meetingUrl
          /\ \A k \in Requests :
                /\ reqs[k].pc \in {"received", "teams"} =>
                      reqs[k].insert = "none"
                /\ reqs[k].pc \in {"received", "teams", "insert"} =>
                      /\ reqs[k].interview = 0
                      /\ reqs[k].statusUpdate = "none"
                /\ reqs[k].pc \in {"received", "teams", "insert", "update"} =>
                      /\ reqs[k].email = "none"
                      /\ reqs[k].slack = "none"
                /\ reqs[k].meetingUrl = "teams" =>
                      reqs[k].pc \notin {"received", "teams"}
                /\ reqs[k].email # "none" => Persisted(k))
    /\ [][\A k \in Requests :
            (reqs[k].interview = 0 /\ reqs'[k].interview # 0) =>
                /\ reqs[k].pc = "insert"
                /\ reqs'[k].meetingUrl = reqs[k].meetingUrl
                /\ reqs[k].from = "dialog" /\ mutation.req = k =>
                      mutation.step = "persisting"]_vars

AllStepsRan ==
    \E k \in Requests :
        /\ reqs[k].from = "dialog"
        /\ SettledOn(k)
        /\ mutation.meet = "created"
        /\ reqs[k].providedMeetingUrl = "meet"
        /\ Persisted(k)
        /\ reqs[k].statusUpdate = "ok"
        /\ reqs[k].email = "sent"
        /\ reqs[k].slack = "sent"
        /\ reqs[k].status = 200

\* C18 (as the code has it): the dialog calls create-event only when it
\* knows the calendar as connected and the Meet switch is on, and only that
\* step creates a Google calendar event.  Otherwise it sends no link; the
\* handler tries Teams only for a request without a link and only when the
\* MS_* variables are set, so the row is written without a link unless that
\* fallback created a meeting.
MeetingCreationIsGated ==
    /\ [](/\ (mutation.meet = "none" /\ mutation.req \in Requests) =>
                LET r == reqs[mutation.req]
                IN  /\ r.providedMeetingUrl = "null"
                    /\ r.providedMeetingId = "null"
                    /\ r.insert = "ok" =>
                          /\ Persisted(mutation.req)
                          /\ r.meetingUrl \in
                               {"null"} \cup (IF msConfigured THEN {"teams"} ELSE {})
          /\ \A k \in Requests :
                reqs[k].pc = "teams" \/ reqs[k].meetingUrl = "teams" =>
                    msConfigured /\ reqs[k].providedMeetingUrl = "null"
          /\ ~msConfigured => teamsMeetings = 0)
    /\ [][/\ (mutation.step # "creating-meeting"
                /\ mutation'.step = "creating-meeting") =>
                    calendarConnected /\ createMeetLink
          /\ gcalEvents' # gcalEvents => mutation.step = "creating-meeting"
          /\ (mutation.status # "pending" /\ mutation'.status = "pending"
                /\ ~(calendarConnected /\ createMeetLink)) =>
                    /\ mutation'.step = "persisting"
                    /\ mutation'.meet = "none"]_vars

OptedOutAttemptPersisted ==
    /\ mutation.status = "success"
    /\ mutation.meet = "none"
    /\ calendarConnected
    /\ ~createMeetLink
    /\ gcalEvents = 0
    /\ Persisted(mutation.req)
    /\ reqs[mutation.req].meetingUrl = "null"

\* C18 (as the specification words it): an attempt for which the dialog
\* requested no meeting is persisted without a meeting link.
UngatedAttemptHasNoLink ==
    (mutation.meet = "none" /\ mutation.req \in Requests) =>
        (reqs[mutation.req].insert = "ok" =>
            reqs[mutation.req].meetingUrl = "null")

\* C19: when the user selects a date with the calendar connected, which
\* starts the availability fetch for that date, no time is auto-selected:
\* the time field is unset while that fetch is outstanding.
NoAutoSelectBeforeAvailability ==
    [][(/\ selectedDate' # selectedDate
        /\ selectedDate' # NoDate
        /\ calendarConnected
        /\ fetches'[DayOf(selectedDate')] > 0) =>
            selectedTime' = NoTime]_vars

\* C20 (as the code has it): when the auto-select effect runs again because
\* the busy set was refreshed or loading ended, on the same date, a time the
\* user picked stays the selected time.  A change of the date is different:
\* the date picker's handler clears the time field, and the effect then
\* selects for the new date as if no time had been picked.
ManualTimeSurvivesAutoSelect ==
    /\ [](pickedByUser => selectedTime # NoTime /\ selectedDate # NoDate)
    /\ [][/\ (/\ pickedByUser
              /\ selectedDate' = selectedDate
              /\ busySlots' # busySlots \/ loadingBusy' # loadingBusy) =>
                    selectedTime' = selectedTime /\ pickedByUser'
          /\ selectedDate' # selectedDate =>
                /\ ~pickedByUser'
                /\ selectedTime' \in
                     {NoTime,
                      findFirstAvailable(selectedDate', busySlots, duration)}
         ]_vars

\* the user picked a time, a later answer of get-free-busy for the selected
\* day covers it, and it is still the selected time
ManualTimeKeptAfterRefresh ==
    /\ pickedByUser
    /\ lastFetch.day = DayOf(selectedDate)
    /\ ~lastFetch.error
    /\ InFlightFetches = 0
    /\ isSlotBusy(selectedTime, selectedDate, busySlots, duration)
    /\ findFirstAvailable(selectedDate, busySlots, duration) # selectedTime

\* C20 (as the specification words it): whenever the effect runs again
\* because the date changed to another date or the busy set was refreshed, a
\* time the user picked is still the selected time.
ManualTimeSurvivesReinvocation ==
    [][(/\ pickedByUser
        /\ \/ selectedDate' # selectedDate /\ selectedDate' # NoDate
           \/ busySlots' # busySlots
           \/ loadingBusy' # loadingBusy) =>
              selectedTime' = selectedTime]_vars

\* C21: the busy set is discarded whenever the date selection changes and
\* whenever the dialog closes.
BusySetIsDiscarded ==
    [][/\ selectedDate' # selectedDate => busySlots' = {}
       /\ (open /\ ~open') => busySlots' = {}]_vars

\* C22: a free/busy request made while the user has no credential row is
\* answered with {connected: false} and not with an error response.
NoCredentialAnswersNotConnected ==
    [][(/\ token = "none"
        /\ probe' # probe
        /\ probe'.op = "get-free-busy") =>
            /\ probe'.result.status = 200
            /\ probe'.result.connected = "false"]_vars

\* C23: a result of get-free-busy or check-connection that arrives while the
\* dialog is closed is abandoned: it changes neither the busy set nor the
\* selected time.
LateResultIsAbandoned ==
    [][(~open /\ ~open') =>
            /\ busySlots' = busySlots
            /\ selectedTime' = selectedTime]_vars

\* C24: when no call has failed and no get-free-busy call is in flight, the
\* busy set the dialog holds for a selected date with the calendar connected
\* consists of intervals fetched for that date.
BusySetMatchesSelectedDate ==
    (/\ faults = 0
     /\ InFlightFetches = 0
     /\ calendarConnected
     /\ selectedDate # NoDate) =>
        \A b \in busySlots : b.start[1] = DayOf(selectedDate)

\* C25: at the moment an attempt is submitted from the dialog, the selected
\* time is not classified busy by isSlotBusy for the current busy set and
\* the current duration.
NoKnownConflictSubmitted ==
    [][(mutation.status # "pending" /\ mutation'.status = "pending") =>
            ~isSlotBusy(selectedTime, selectedDate, busySlots, duration)]_vars

\* C26: a scheduling operation (the schedule-interview handler, the chat
\* assistant's tool) never changes the status of an application that is in
\* offer, hired or rejected to interview.
SchedulingNeverMovesBackwards ==
    [][\A a \in Apps :
          ~(/\ appStatus[a] \in {"offer", "hired", "rejected"}
            /\ appStatus'[a] = "interview"
            /\ reqs' # reqs \/ interviews' # interviews)]_vars

\* C27: on every successful attempt the meetingUrl the dialog's mutation
\* hands to onSuccess equals the meeting_url of the interview row the request
\* wrote.
ReturnedLinkIsPersistedLink ==
    (mutation.status = "success" /\ mutation.req \in Requests) =>
        \A row \in interviews :
            row.id = reqs[mutation.req].interview =>
                mutation.meetingUrl = row.meeting_url

\* requests the dialog has sent
DialogRequests == {k \in Requests : reqs[k].from = "dialog"}

\* C28: while an attempt started from the dialog is pending the Schedule
\* Interview button is disabled; the pending attempt stays the same attempt
\* until it settles, it sends at most one request, and the only request of
\* the dialog the handler has not answered is the one the pending attempt
\* waits for.
OnePipelinePerDialog ==
    /\ [](/\ mutation.status = "pending" => ~canSubmit
          /\ \A k \in DialogRequests :
                reqs[k].pc # "done" =>
                    /\ mutation.status = "pending"
                    /\ mutation.step = "persisting"
                    /\ mutation.req = k)
    /\ [][(mutation.status = "pending" /\ mutation'.status = "pending") =>
            /\ mutation'.app = mutation.app
            /\ mutation'.scheduledAt = mutation.scheduledAt
            /\ mutation.req # 0 => mutation'.req = mutation.req
            /\ Cardinality(DialogRequests') <= Cardinality(DialogRequests) + 1
            /\ Cardinality(DialogRequests') = Cardinality(DialogRequests) + 1
                  => mutation.req = 0 /\ mutation'.req \in DialogRequests'
         ]_vars

\* a second attempt is pending after the first one ended, with the form
\* complete and the button disabled
SecondAttemptPending ==
    /\ Cardinality(DialogRequests) = 2
    /\ mutation.status = "pending"
    /\ mutation.req = 2
    /\ reqs[1].pc = "done"
    /\ open
    /\ ~missingSelection(selectedApplication, selectedDate, selectedTime)
    /\ ~canSubmit

\* C29: when an attempt ends in error the dialog's open flag and the selected
\* application, date, time, duration and interview type are unchanged; when
\* it ends in success the dialog closes and application, date, time and busy
\* set are reset to empty.
OutcomeFrame ==
    [][/\ (mutation.status # "error" /\ mutation'.status = "error") =>
            UNCHANGED <<open, selectedApplication, selectedDate, selectedTime,
                        duration, interviewType>>
       /\ (mutation.status # "success" /\ mutation'.status = "success") =>
            /\ ~open'
            /\ selectedApplication' = NoApp
            /\ selectedDate' = NoDate
            /\ selectedTime' = NoTime
            /\ busySlots' = {}]_vars

\* an attempt ended in error with the dialog open and the form still
\* complete, so that the button is enabled for a retry
ErrorLeavesFormForRetry ==
    /\ mutation.status = "error"
    /\ open
    /\ ~missingSelection(selectedApplication, selectedDate, selectedTime)
    /\ canSubmit

\* a step in which the google-calendar function answered a request
CalendarAnswered(action) == probe' # probe /\ probe'.op = action

=============================================================================
